---- MODULE Spec2Model ----
(***************************************************************************)
(* The place data provider (place_data_provider.ts) and the bounded place  *)
(* lookup cache it shares (CachedPlaceLookup, described in spec.md 3-8).   *)
(*                                                                         *)
(* A provider load is one run of updated() -> updatePlace(); it suspends   *)
(* at every await, so loads of the same or of different providers          *)
(* interleave at those points and nowhere else.                            *)
(***************************************************************************)
EXTENDS Integers, Sequences, FiniteSets, TLC

\* --------------------------------------------------------------- bounds
\* Capacity N given to the cache at construction.  The provider passes
\* CACHE_SIZE (100); the model runs the same cache with a small N so that
\* eviction happens within the bounds.
Capacity == 2
\* Number of loads (runs of updatePlace) started in one behaviour.
MaxLoads == 2
\* The same for the behaviours in which the caller finishes each load
\* before it starts the next one.
MaxSeqLoads == 5
\* The same for the behaviours in which every resolve call settles.
MaxLiveLoads == 2
\* The same for the behaviours of one provider whose attributes and
\* consumers change.
MaxProvLoads == 2
\* Number of loads of the provider whose every call settles.
MaxLoadRuns == 2
\* Number of loads of the provider whose effects are recorded.
MaxEffectLoads == 2
\* Number of things the user does with the place picker in one behaviour.
MaxPickerSteps == 6

Providers == {"p1", "p2"}
Ids == {"A", "B", "C", "D"}
\* "none" stands for an undefined language.
Langs == {"none", "en"}

\* ----------------------------------------------------------- data model
Keys == Ids \X Langs
NoKey == <<"", "none">>

\* A Place object; src tells the objects apart by where they were made:
\* "resolve" (the cache's resolve call), "user" (a Place assigned to the
\* provider), "result" (made from a PlaceResult), "shim" (the fallback).
MkPlace(id, lang, src) == [id |-> id, requestedLanguage |-> lang, src |-> src]
NoPlace == MkPlace("", "none", "none")

\* Values of the provider's `place` property.
UndefinedProp == [kind |-> "undefined", id |-> "", requestedLanguage |-> "none"]
StringProps == {[kind |-> "string", id |-> i, requestedLanguage |-> "none"] : i \in Ids}
ResultProps == {[kind |-> "PlaceResult", id |-> i, requestedLanguage |-> "none"] : i \in Ids}
ObjectProps == {[kind |-> "Place", id |-> i, requestedLanguage |-> g] : i \in Ids, g \in Langs}
PlaceProps == {UndefinedProp} \cup StringProps \cup ResultProps \cup ObjectProps
\* The values assigned where providers, languages and kinds of place all vary.
GenProps == {pl \in PlaceProps : pl.id \in {"", "A", "B"}}

VARIABLES
  place,              \* provider -> value of the `place` property
  language,           \* provider -> value of the `language` property
  autoFetchDisabled,  \* provider -> BOOLEAN
  fields,             \* provider -> the manually specified fields (<<>>: none)
  placeConsumers,     \* provider -> registered consumers, in order of insertion
  loadingState,       \* provider -> "EMPTY" | "LOADING" | "LOADED" | "ERROR"
  contextPlace,       \* provider -> Place handed to the consumers (or NoPlace)
  entries,            \* cache -> resolved entries, least recently used first
  pending,            \* pending markers of the caches: [cache, key, id]
  fetches,            \* resolve calls that have not settled: [cache, key, id]
  loads,              \* load number -> where that run of updatePlace stands
  nloads,             \* number of loads started
  recency,            \* keys of the shared cache by last access, oldest first
  lastHit,            \* key of the latest hit on the shared cache
  events,             \* the events dispatched so far, in order
  effects,            \* what the loads did to consumers and children, in order
  picker,             \* the place picker: its value, input text, buttons, events
  env                 \* the bounds of this behaviour: [limit, active, track, log, fx]

vars == <<place, language, autoFetchDisabled, fields, placeConsumers,
          loadingState, contextPlace, entries, pending, fetches, loads, nloads,
          recency, lastHit, events, effects, picker, env>>

provVars == <<place, language, autoFetchDisabled, fields, placeConsumers>>
cacheVars == <<entries, pending, fetches, recency, lastHit>>

\* ------------------------------------------------------ the place picker
\* The picker as place_picker_test.ts drives and observes it.
Undefined == [kind |-> "undefined"]

\* What Autocomplete.getPlace() returns for the prediction the user chose.
PlaceResultFromAutocomplete ==
  [place_id |-> "FAKE_AUTOCOMPLETE_PLACE_ID",
   geometry |-> [location |-> "FAKE_LOCATION"],
   name |-> "Fake Place from Autocomplete"]

\* The Place the picker makes of a PlaceResult.
PlaceFromResult(r) ==
  [kind |-> "Place", id |-> r.place_id, location |-> r.geometry.location,
   displayName |-> r.name]

\* The texts the user types; "" is what deleting all text leaves.
QueryTexts == {"", "some text", "123 Main St"}

PlaceChangeEvent == [type |-> "gmpx-placechange"]

\* The other value of the picker: a search that found no place.
Null == [kind |-> "null"]

\* The place Place.findPlaceFromQuery finds.
PlaceFromQuery == [kind |-> "Place", id |-> "FAKE_QUERY_PLACE_ID"]

\* What a find-place query resolves to: no place, or the one place found.
FindPlaceResponses == {<<>>, <<PlaceFromQuery>>}

\* The errors the Places API rejects a query with.
SearchErrors == {"some network error", "quota exceeded"}

\* The request the search button sends for the text of the input.
FindPlaceRequest(query) == [query |-> query, fields |-> <<"id">>, locationBias |-> "FAKE_BOUNDS"]

PickerRequestErrorEvent(error) == [type |-> "gmpx-requesterror", error |-> error]

\* The picker after it has rendered; steps lists what the user did since.
NewPicker ==
  [value |-> Undefined, input |-> "", searchDisabled |-> TRUE, clearHidden |-> TRUE,
   dispatched |-> <<>>, steps |-> <<>>,
   pc |-> "idle", found |-> Undefined, findPlaceFromQuery |-> <<>>, fetchFields |-> <<>>]

\* ------------------------------------------------- the cache (spec.md 4.1)
\* Cache instances: the static one, and one name per provider (unused
\* unless the lookup is per instance).
Caches == {"static"} \cup Providers

KeyOf(pl) == <<pl.id, pl.requestedLanguage>>

KeysOf(es) == {es[i].key : i \in 1..Len(es)}

EntryOf(es, k) == (CHOOSE i \in 1..Len(es) : es[i].key = k)

Cached(es, k) == es[EntryOf(es, k)].place

Without(es, k) == SelectSeq(es, LAMBDA e : e.key # k)

\* The cache evicts the entry used last instead of the one used first.
PutEvictNewest(es, k, pl, cap) ==
  LET rest == Without(es, k)
      room == IF Len(rest) >= cap THEN SubSeq(rest, 1, Len(rest) - 1) ELSE rest
  IN  Append(room, [key |-> k, place |-> pl])

\* Insert or overwrite k at the most-recently-used end; when the cache is
\* full and k is new, the least recently used entry goes.
Put(es, k, pl, cap) ==
  LET rest == Without(es, k)
      room == IF Len(rest) >= cap THEN Tail(rest) ELSE rest
  IN  Append(room, [key |-> k, place |-> pl])

\* A hit leaves the entry where it is.
TouchNoRefresh(es, k) == es

\* A hit moves the entry to the most-recently-used end.
Touch(es, k) == Append(Without(es, k), [key |-> k, place |-> Cached(es, k)])

\* What getPlace(k) does on cache c: "hit", "attach" (a fetch is
\* outstanding) or "miss" (a resolve call is issued).
GetPlaceOutcome(c, k) ==
  IF k \in KeysOf(entries[c]) THEN "hit"
  ELSE IF \E m \in pending : m.cache = c /\ m.key = k THEN "attach"
  ELSE "miss"

PendingFetch(c, k) == (CHOOSE m \in pending : m.cache = c /\ m.key = k).id

\* The ghost access order: k becomes the most recent key.
Accessed(r, k) == Append(SelectSeq(r, LAMBDA x : x # k), k)

Note(c, k) == IF env.track /\ c = "static" THEN Accessed(recency, k) ELSE recency

NoteHit(c, k) == IF env.track /\ c = "static" THEN k ELSE lastHit


\* ------------------------------------------------------------- loads
NoRes == [st |-> "none", place |-> NoPlace]
OkRes(pl) == [st |-> "ok", place |-> pl]
ErrRes == [st |-> "err", place |-> NoPlace]

\* fields is the local variable of that name in updatePlace.
IdleLoad == [pc |-> "idle", prov |-> "", key |-> NoKey, att |-> 0, res |-> NoRes,
             fields |-> <<>>]
DoneLoad == [IdleLoad EXCEPT !.pc = "done"]
At(pcv, p, k) == [pc |-> pcv, prov |-> p, key |-> k, att |-> 0, res |-> NoRes,
                  fields |-> <<>>]
\* The load awaits a call that was given the field list fs.
Call(pcv, p, k, fs) == [At(pcv, p, k) EXCEPT !.fields = fs]

Active == {l \in DOMAIN loads : loads[l].pc \notin {"idle", "done"}}

\* getPlace(k) finds the entry: it becomes the most recently used one and
\* the caller gets the cached place.
GetHit(l, p, c, k) ==
  /\ entries' = [entries EXCEPT ![c] = Touch(@, k)]
  /\ recency' = Note(c, k)
  /\ lastHit' = NoteHit(c, k)
  /\ loads' = [loads EXCEPT ![l] =
                 [At("lookup", p, k) EXCEPT !.res = OkRes(Cached(entries[c], k))]]
  /\ UNCHANGED <<pending, fetches>>

\* getPlace(k) finds a fetch outstanding for k: the caller attaches to it.
GetAttach(l, p, c, k) ==
  /\ loads' = [loads EXCEPT ![l] =
                 [At("lookup", p, k) EXCEPT !.att = PendingFetch(c, k)]]
  /\ UNCHANGED <<entries, pending, fetches, recency, lastHit>>

\* getPlace(k) finds nothing: one resolve call is issued and stored under k.
GetMiss(l, p, c, k) ==
  /\ fetches' = fetches \cup {[cache |-> c, key |-> k, id |-> l]}
  /\ pending' = pending \cup {[cache |-> c, key |-> k, id |-> l]}
  /\ loads' = [loads EXCEPT ![l] = [At("lookup", p, k) EXCEPT !.att = l]]
  /\ UNCHANGED <<entries, recency, lastHit>>

\* getPlace(k) on cache c, called by load l of provider p, which then
\* awaits the promise it returns.
GetPlace(l, p, c, k) ==
  LET o == GetPlaceOutcome(c, k) IN
  CASE o = "hit" -> GetHit(l, p, c, k)
    [] o = "attach" -> GetAttach(l, p, c, k)
    [] o = "miss" -> GetMiss(l, p, c, k)

\* updatePlace(pl) overwrites an entry where it is, without refreshing it.
UpdatePlaceInPlace(c, pl, cap) ==
  /\ entries' = [entries EXCEPT ![c] =
                   IF KeyOf(pl) \in KeysOf(@)
                   THEN [i \in 1..Len(@) |->
                           IF @[i].key = KeyOf(pl) THEN [key |-> KeyOf(pl), place |-> pl] ELSE @[i]]
                   ELSE Put(@, KeyOf(pl), pl, cap)]
  /\ recency' = Note(c, KeyOf(pl))
  /\ UNCHANGED <<pending, fetches, lastHit>>

\* updatePlace(pl) on cache c with capacity cap: no fetch, the entry is
\* inserted or overwritten and becomes the most recently used.
UpdatePlace(c, pl, cap) ==
  /\ entries' = [entries EXCEPT ![c] = Put(@, KeyOf(pl), pl, cap)]
  /\ recency' = Note(c, KeyOf(pl))
  /\ UNCHANGED <<pending, fetches, lastHit>>

\* --------------------------------------- the provider's use of the cache
\* placeLookup as an instance member: one cache per provider.
PlaceLookupPerInstance(p) == p

\* placeLookup is a static member: every provider uses the same instance.
PlaceLookup(p) == "static"

\* A cache constructed with room for one entry more than N.
CapacityOffByOne == Capacity + 1

\* The capacity the provider constructs its cache with.
placeLookupCapacity == Capacity

\* The language is left out of the key.
LookupKeyIdOnly(id, lang) == <<id, "none">>

\* The cache key of getPlace(this.place, this.language).
LookupKey(id, lang) == <<id, lang>>

\* The provider resolves the place itself on every load.
LookupPlaceUncached(l, p, id, lang) == GetMiss(l, p, PlaceLookup(p), LookupKey(id, lang))

\* The provider forgets to hand the place to the cache.
CacheUpdatePlaceSkipped(p, pl) == UNCHANGED cacheVars

\* PlaceDataProvider.placeLookup.getPlace(this.place, this.language)
LookupPlace(l, p, id, lang) == GetPlace(l, p, PlaceLookup(p), LookupKey(id, lang))

\* PlaceDataProvider.placeLookup.updatePlace(this.contextPlace)
CacheUpdatePlace(p, pl) == UpdatePlace(PlaceLookup(p), pl, placeLookupCapacity)

\* ------------------------------------------------------- the provider
\* The value of the `fields` attribute of the elements that have one.
FieldsAttribute == <<"displayName">>

\* The child consumers and the fields each of them requires.
Consumers == {"c1", "c2"}
getRequiredFields(c) == IF c = "c1" THEN <<"displayName", "location">>
                                   ELSE <<"location", "rating">>

\* Set.add on a Set kept in its order of insertion.
SetAdd(s, x) == IF \E i \in 1..Len(s) : s[i] = x THEN s ELSE Append(s, x)

\* The fields of a consumer are appended without looking for duplicates.
AddAllNoSet(s, xs) == s \o xs

RECURSIVE AddAll(_, _)
AddAll(s, xs) == IF xs = <<>> THEN s ELSE AddAll(SetAdd(s, Head(xs)), Tail(xs))

RECURSIVE FieldSet(_)
FieldSet(cs) == IF cs = <<>> THEN <<>>
                ELSE AddAll(FieldSet(SubSeq(cs, 1, Len(cs) - 1)),
                            getRequiredFields(cs[Len(cs)]))

\* getConsumerFields(): the fields of the registered consumers, each once.
getConsumerFields(p) == FieldSet(placeConsumers[p])

\* The consumers that are PlaceAttribution elements.
PlaceAttributions == {"c2"}

\* The set placeAttributions: the registered consumers that are attributions.
placeAttributions(p) == SelectSeq(placeConsumers[p], LAMBDA c : c \in PlaceAttributions)

\* Lines 345-348: consumer.requestUpdate('contextPlace', ...) on every
\* registered consumer, in the order of the Set.
RequestUpdates(p) ==
  [i \in 1..Len(placeConsumers[p]) |->
     [type |-> "requestUpdate", target |-> p, child |-> placeConsumers[p][i]]]

\* appendAttributionIfAbsent(): a PlaceAttribution is appended as a child
\* when none is registered.
appendAttributionIfAbsent(p) ==
  IF placeAttributions(p) = <<>>
  THEN <<[type |-> "appendChild", target |-> p, child |-> "PlaceAttribution"]>>
  ELSE <<>>

\* The effects so far followed by es, where they are recorded.
Recorded(es) == IF env.fx THEN effects \o es ELSE effects

\* The state after construction; e gives the bounds of the behaviour and
\* afd, hf the providers whose element has the auto-fetch-disabled and the
\* fields attribute.
InitWith(e, afd, hf) ==
  /\ place = [p \in Providers |-> UndefinedProp]
  /\ language = [p \in Providers |-> "none"]
  /\ autoFetchDisabled = [p \in Providers |-> p \in afd]
  /\ fields = [p \in Providers |-> IF p \in hf THEN FieldsAttribute ELSE <<>>]
  /\ placeConsumers = [p \in Providers |-> <<>>]
  /\ events = <<>>
  /\ effects = <<>>
  /\ picker = NewPicker
  /\ loadingState = [p \in Providers |-> "EMPTY"]
  /\ contextPlace = [p \in Providers |-> NoPlace]
  /\ entries = [c \in Caches |-> <<>>]
  /\ pending = {}
  /\ fetches = {}
  /\ loads = [l \in 1..e.limit |-> IdleLoad]
  /\ nloads = 0
  /\ recency = <<>>
  /\ lastHit = NoKey
  /\ env = e

\* p1 is an element without attributes, p2 one with auto-fetch-disabled
\* and fields.
Init == InitWith([limit |-> MaxLoads, active |-> MaxLoads, track |-> FALSE, log |-> FALSE, fx |-> FALSE], {"p2"}, {"p2"})

\* auto-fetch-disabled also stops the fetch for a Place ID.
ProceedUnlessDisabled(l, p, pl, ls) ==
  IF ~autoFetchDisabled[p]
  THEN /\ loads' = [loads EXCEPT ![l] =
                      IF fields[p] # <<>> THEN Call("fetch", p, NoKey, fields[p])
                                          ELSE At("defer", p, NoKey)]
       /\ loadingState' = [loadingState EXCEPT ![p] = ls]
       /\ UNCHANGED <<events, effects>>
  ELSE /\ loads' = [loads EXCEPT ![l] = DoneLoad]
       /\ loadingState' = [loadingState EXCEPT ![p] = "LOADED"]
       /\ effects' = Recorded(appendAttributionIfAbsent(p))
       /\ UNCHANGED events

\* Lines 317-351 of updatePlace, entered right after contextPlace was set:
\* the load either calls fetchFields, defers to let consumers register, or
\* finishes.  pl is the value of this.place the test on line 319 reads and
\* ls the loading state at that point.
Proceed(l, p, pl, ls) ==
  IF pl.kind = "string" \/ ~autoFetchDisabled[p]
  THEN /\ loads' = [loads EXCEPT ![l] =
                      IF fields[p] # <<>> THEN Call("fetch", p, NoKey, fields[p])
                                          ELSE At("defer", p, NoKey)]
       /\ loadingState' = [loadingState EXCEPT ![p] = ls]
       /\ UNCHANGED <<events, effects>>
  ELSE /\ loads' = [loads EXCEPT ![l] = DoneLoad]
       /\ loadingState' = [loadingState EXCEPT ![p] = "LOADED"]
       /\ effects' = Recorded(appendAttributionIfAbsent(p))
       /\ UNCHANGED events

\* new RequestErrorEvent(error), dispatched on provider p.
RequestErrorEvent(p, error) == [type |-> "gmpx-requesterror", target |-> p, error |-> error]

\* handleError sets the state and dispatches nothing.
HandleErrorSilent(l, p, error) ==
  /\ loads' = [loads EXCEPT ![l] = DoneLoad]
  /\ loadingState' = [loadingState EXCEPT ![p] = "ERROR"]
  /\ UNCHANGED <<events, effects>>

\* handleError, reached from the catch in updated().
HandleError(l, p, error) ==
  /\ loads' = [loads EXCEPT ![l] = DoneLoad]
  /\ loadingState' = [loadingState EXCEPT ![p] = "ERROR"]
  /\ events' = IF env.log THEN Append(events, RequestErrorEvent(p, error)) ELSE events
  /\ UNCHANGED effects

\* The load of an undefined place goes on to line 350 and appends the
\* attribution before it returns.
LoadEmptyAttributed(l, p) ==
  /\ contextPlace' = [contextPlace EXCEPT ![p] = NoPlace]
  /\ loadingState' = [loadingState EXCEPT ![p] = "EMPTY"]
  /\ loads' = [loads EXCEPT ![l] = DoneLoad]
  /\ effects' = Recorded(appendAttributionIfAbsent(p))
  /\ UNCHANGED <<cacheVars, events>>

\* Lines 302-305: this.place is undefined or the empty string.
LoadEmpty(l, p) ==
  /\ contextPlace' = [contextPlace EXCEPT ![p] = NoPlace]
  /\ loadingState' = [loadingState EXCEPT ![p] = "EMPTY"]
  /\ loads' = [loads EXCEPT ![l] = DoneLoad]
  /\ UNCHANGED <<cacheVars, events, effects>>

\* updated() -> updatePlace() up to its first await, for provider p whose
\* properties are now pl and lang.
StartLoad(p, pl, lang) ==
  LET l == nloads + 1 IN
  /\ nloads < env.limit
  /\ Cardinality(Active) < env.active
  /\ nloads' = l
  /\ UNCHANGED <<autoFetchDisabled, fields, placeConsumers, picker, env>>
  /\ CASE pl.kind = "undefined" -> LoadEmpty(l, p)
       [] pl.kind = "string" ->
            /\ loadingState' = [loadingState EXCEPT ![p] = "LOADING"]
            /\ LookupPlace(l, p, pl.id, lang)
            /\ UNCHANGED <<contextPlace, events, effects>>
       [] pl.kind = "PlaceResult" ->
            /\ loadingState' = [loadingState EXCEPT ![p] = "LOADING"]
            /\ loads' = [loads EXCEPT ![l] = At("make", p, <<pl.id, lang>>)]
            /\ UNCHANGED <<contextPlace, cacheVars, events, effects>>
       [] pl.kind = "Place" ->
            LET ctx == MkPlace(pl.id, pl.requestedLanguage, "user") IN
            /\ contextPlace' = [contextPlace EXCEPT ![p] = ctx]
            /\ CacheUpdatePlace(p, ctx)
            /\ Proceed(l, p, pl, "LOADING")

\* `place` declared without hasChanged: assigning the value it has starts
\* no update.
AssignPlaceIfChanged(p, pl) ==
  IF pl = place[p]
  THEN UNCHANGED vars
  ELSE /\ place' = [place EXCEPT ![p] = pl]
       /\ UNCHANGED language
       /\ StartLoad(p, pl, language[p])

\* provider.place = pl
AssignPlace(p, pl) ==
  /\ place' = [place EXCEPT ![p] = pl]
  /\ UNCHANGED language
  /\ StartLoad(p, pl, language[p])

\* provider.language = lang
AssignLanguage(p, lang) ==
  /\ language' = [language EXCEPT ![p] = lang]
  /\ UNCHANGED place
  /\ StartLoad(p, place[p], lang)

\* provider.place = pl and provider.language = lang before the element
\* updates: updated() sees both in changedProperties and runs updatePlace
\* once.
AssignPlaceAndLanguage(p, pl, lang) ==
  /\ place' = [place EXCEPT ![p] = pl]
  /\ language' = [language EXCEPT ![p] = lang]
  /\ StartLoad(p, pl, lang)

\* provider.autoFetchDisabled = b: no load is started.
AssignAutoFetchDisabled(p, b) ==
  /\ autoFetchDisabled[p] # b
  /\ autoFetchDisabled' = [autoFetchDisabled EXCEPT ![p] = b]
  /\ UNCHANGED <<place, language, fields, placeConsumers, loadingState,
                 contextPlace, cacheVars, loads, nloads, events, effects, picker, env>>

\* provider.fields = fs (<<>> for undefined or an empty list): no load is
\* started.
AssignFields(p, fs) ==
  /\ fields[p] # fs
  /\ fields' = [fields EXCEPT ![p] = fs]
  /\ UNCHANGED <<place, language, autoFetchDisabled, placeConsumers, loadingState,
                 contextPlace, cacheVars, loads, nloads, events, effects, picker, env>>

\* registerPlaceConsumer(c): no load is started.
RegisterPlaceConsumer(p, c) ==
  /\ placeConsumers' = [placeConsumers EXCEPT ![p] = SetAdd(@, c)]
  /\ placeConsumers' # placeConsumers
  /\ UNCHANGED <<place, language, autoFetchDisabled, fields, loadingState,
                 contextPlace, cacheVars, loads, nloads, events, effects, picker, env>>

\* unregisterPlaceConsumer(c): no load is started.
UnregisterPlaceConsumer(p, c) ==
  /\ placeConsumers' = [placeConsumers EXCEPT ![p] = SelectSeq(@, LAMBDA x : x # c)]
  /\ placeConsumers' # placeConsumers
  /\ UNCHANGED <<place, language, autoFetchDisabled, fields, loadingState,
                 contextPlace, cacheVars, loads, nloads, events, effects, picker, env>>

\* ------------------------------------------- the user and the place picker
notPicker == <<place, language, autoFetchDisabled, fields, placeConsumers,
               loadingState, contextPlace, entries, pending, fetches, loads, nloads,
               recency, lastHit, events, effects, env>>

\* An edit of the text that leaves both buttons as they were.
EnterQueryTextKeepsButtons(query) ==
  /\ Len(picker.steps) < MaxPickerSteps
  /\ picker.pc = "idle"
  /\ picker' = [picker EXCEPT !.input = query,
                              !.steps = Append(@, "input")]
  /\ UNCHANGED notPicker

\* The user edits the text of the input: an `input` event.
EnterQueryText(query) ==
  /\ Len(picker.steps) < MaxPickerSteps
  /\ picker.pc = "idle"
  /\ picker' = [picker EXCEPT !.input = query,
                              !.searchDisabled = (query = ""),
                              !.clearHidden = (query = ""),
                              !.steps = Append(@, "input")]
  /\ UNCHANGED notPicker

\* A selection of its prediction keeps the clear button hidden.
PlaceSelectionHandlerNoClear ==
  /\ Len(picker.steps) < MaxPickerSteps
  /\ picker.pc = "idle"
  /\ picker.input # ""
  /\ picker' = [picker EXCEPT !.value = PlaceFromResult(PlaceResultFromAutocomplete),
                              !.searchDisabled = TRUE,
                              !.clearHidden = TRUE,
                              !.dispatched = Append(@, PlaceChangeEvent),
                              !.steps = Append(@, "select")]
  /\ UNCHANGED notPicker

\* The user chooses a prediction of the Autocomplete widget, which calls
\* the picker's place_changed listener.
PlaceSelectionHandler ==
  /\ Len(picker.steps) < MaxPickerSteps
  /\ picker.pc = "idle"
  /\ picker.input # ""
  /\ picker' = [picker EXCEPT !.value = PlaceFromResult(PlaceResultFromAutocomplete),
                              !.searchDisabled = TRUE,
                              !.clearHidden = FALSE,
                              !.dispatched = Append(@, PlaceChangeEvent),
                              !.steps = Append(@, "select")]
  /\ UNCHANGED notPicker

\* The clear button leaves the text in the input.
ClearButtonClickKeepsText ==
  /\ Len(picker.steps) < MaxPickerSteps
  /\ picker.pc = "idle"
  /\ ~picker.clearHidden
  /\ picker.value # Undefined
  /\ picker' = [picker EXCEPT !.value = Undefined,
                              !.searchDisabled = TRUE,
                              !.clearHidden = TRUE,
                              !.dispatched = Append(@, PlaceChangeEvent),
                              !.steps = Append(@, "clear")]
  /\ UNCHANGED notPicker

\* The user clicks the clear button while a place is selected.
ClearButtonClick ==
  /\ Len(picker.steps) < MaxPickerSteps
  /\ picker.pc = "idle"
  /\ ~picker.clearHidden
  /\ picker.value # Undefined
  /\ picker' = [picker EXCEPT !.value = Undefined,
                              !.input = "",
                              !.searchDisabled = TRUE,
                              !.clearHidden = TRUE,
                              !.dispatched = Append(@, PlaceChangeEvent),
                              !.steps = Append(@, "clear")]
  /\ UNCHANGED notPicker

\* The user clicks the search button; the picker sends the find-place query
\* and waits for its response.
SearchButtonClick ==
  /\ Len(picker.steps) < MaxPickerSteps
  /\ picker.pc = "idle"
  /\ ~picker.searchDisabled
  /\ picker' = [picker EXCEPT !.pc = "find",
                              !.searchDisabled = TRUE,
                              !.findPlaceFromQuery = Append(@, FindPlaceRequest(picker.input)),
                              !.steps = Append(@, "search")]
  /\ UNCHANGED notPicker

\* A query that finds no place leaves the value undefined.
FindPlaceResolvesUndefined(places) ==
  /\ picker.pc = "find"
  /\ IF places = <<>>
       THEN picker' = [picker EXCEPT !.pc = "idle",
                                     !.value = Undefined,
                                     !.searchDisabled = TRUE,
                                     !.clearHidden = FALSE,
                                     !.dispatched = Append(@, PlaceChangeEvent),
                                     !.steps = Append(@, "none")]
       ELSE picker' = [picker EXCEPT !.pc = "fetch",
                                     !.found = places[1],
                                     !.fetchFields = Append(@, [place |-> places[1].id,
                                                                fields |-> "PLACE_DATA_FIELDS"]),
                                     !.steps = Append(@, "found")]
  /\ UNCHANGED notPicker

\* The find-place query resolves: with no place the value becomes null, with
\* a place the picker calls fetchFields on it and waits.
FindPlaceResolves(places) ==
  /\ picker.pc = "find"
  /\ IF places = <<>>
       THEN picker' = [picker EXCEPT !.pc = "idle",
                                     !.value = Null,
                                     !.searchDisabled = TRUE,
                                     !.clearHidden = FALSE,
                                     !.dispatched = Append(@, PlaceChangeEvent),
                                     !.steps = Append(@, "none")]
       ELSE picker' = [picker EXCEPT !.pc = "fetch",
                                     !.found = places[1],
                                     !.fetchFields = Append(@, [place |-> places[1].id,
                                                                fields |-> "PLACE_DATA_FIELDS"]),
                                     !.steps = Append(@, "found")]
  /\ UNCHANGED notPicker

\* fetchFields on the place found resolves: the place becomes the value.
FetchFieldsResolves ==
  /\ picker.pc = "fetch"
  /\ picker' = [picker EXCEPT !.pc = "idle",
                              !.value = picker.found,
                              !.found = Undefined,
                              !.searchDisabled = TRUE,
                              !.clearHidden = FALSE,
                              !.dispatched = Append(@, PlaceChangeEvent),
                              !.steps = Append(@, "fetched")]
  /\ UNCHANGED notPicker

\* A rejected query that is reported as a change of the value to null.
FindPlaceRejectsAsNoResult(error) ==
  /\ picker.pc = "find"
  /\ picker' = [picker EXCEPT !.pc = "idle",
                              !.value = Null,
                              !.dispatched = Append(@, PlaceChangeEvent),
                              !.steps = Append(@, "rejected")]
  /\ UNCHANGED notPicker

\* The find-place query is rejected: the picker reports the error.
FindPlaceRejects(error) ==
  /\ picker.pc = "find"
  /\ picker' = [picker EXCEPT !.pc = "idle",
                              !.dispatched = Append(@, PickerRequestErrorEvent(error)),
                              !.steps = Append(@, "rejected")]
  /\ UNCHANGED notPicker

\* ------------------------------------------------ the resolve call settles
\* Only the caller that issued the fetch is told of its outcome.
WaitersIssuerOnly(f) == {l \in DOMAIN loads : loads[l].pc = "lookup" /\ loads[l].att = f.id
                                              /\ loads[l].res.st = "none" /\ l = f.id}

\* The callers awaiting the promise of fetch f.
Waiters(f) == {l \in DOMAIN loads : loads[l].pc = "lookup" /\ loads[l].att = f.id
                                    /\ loads[l].res.st = "none"}

Settle(f, r) == [l \in DOMAIN loads |->
                   IF l \in Waiters(f) THEN [loads[l] EXCEPT !.res = r] ELSE loads[l]]

Unmark(f) == {m \in pending : ~(m.cache = f.cache /\ m.key = f.key)}

\* The fetch succeeds: the entry is inserted and every waiter gets the place.
FetchSucceeds(f) ==
  LET pl == MkPlace(f.key[1], f.key[2], "resolve") IN
  /\ f \in fetches
  /\ fetches' = fetches \ {f}
  /\ pending' = Unmark(f)
  /\ entries' = [entries EXCEPT ![f.cache] = Put(@, f.key, pl, placeLookupCapacity)]
  /\ recency' = Note(f.cache, f.key)
  /\ loads' = Settle(f, OkRes(pl))
  /\ UNCHANGED <<provVars, loadingState, contextPlace, lastHit, nloads, events, effects, picker, env>>

\* The failure is told to the waiters and the marker is left behind.
FetchFailsStale(f) ==
  /\ f \in fetches
  /\ fetches' = fetches \ {f}
  /\ loads' = Settle(f, ErrRes)
  /\ UNCHANGED <<provVars, loadingState, contextPlace, entries, pending, recency,
                 lastHit, nloads, events, effects, picker, env>>

\* The clean-up after a failure deletes whatever is stored under the key.
FetchFailsDeletesEntry(f) ==
  /\ f \in fetches
  /\ fetches' = fetches \ {f}
  /\ pending' = Unmark(f)
  /\ entries' = [entries EXCEPT ![f.cache] = Without(@, f.key)]
  /\ loads' = Settle(f, ErrRes)
  /\ UNCHANGED <<provVars, loadingState, contextPlace, recency, lastHit, nloads,
                 events, effects, picker, env>>

\* The fetch fails: nothing is cached, the marker goes, every waiter gets
\* the error.
FetchFails(f) ==
  /\ f \in fetches
  /\ fetches' = fetches \ {f}
  /\ pending' = Unmark(f)
  /\ loads' = Settle(f, ErrRes)
  /\ UNCHANGED <<provVars, loadingState, contextPlace, entries, recency, lastHit, nloads,
                 events, effects, picker, env>>

\* ------------------------------------------------- a suspended load resumes
\* Line 307: the awaited getPlace promise has settled.
ResumeLookup(l) ==
  LET p == loads[l].prov IN
  /\ loads[l].pc = "lookup"
  /\ loads[l].res.st # "none"
  /\ IF loads[l].res.st = "ok"
     THEN /\ contextPlace' = [contextPlace EXCEPT ![p] = loads[l].res.place]
          /\ Proceed(l, p, place[p], loadingState[p])
     ELSE /\ HandleError(l, p, "resolve")
          /\ UNCHANGED contextPlace
  /\ UNCHANGED <<provVars, cacheVars, nloads, picker, env>>

\* Lines 310-311: makePlaceFromPlaceResult has settled (ok or not).
ResumeMake(l, ok) ==
  LET p == loads[l].prov
      ctx == MkPlace(loads[l].key[1], loads[l].key[2], "result")
  IN
  /\ loads[l].pc = "make"
  /\ IF ok
     THEN /\ contextPlace' = [contextPlace EXCEPT ![p] = ctx]
          /\ CacheUpdatePlace(p, ctx)
          /\ Proceed(l, p, place[p], loadingState[p])
     ELSE /\ HandleError(l, p, "makePlace")
          /\ UNCHANGED <<contextPlace, cacheVars>>
  /\ UNCHANGED <<provVars, nloads, picker, env>>

\* Lines 325-329: after `await 0` the load calls fetchFields on the current
\* contextPlace, which throws when that is undefined.
ResumeDefer(l) ==
  LET p == loads[l].prov IN
  /\ loads[l].pc = "defer"
  /\ IF contextPlace[p] = NoPlace
     THEN HandleError(l, p, "TypeError")
     ELSE /\ loads' = [loads EXCEPT ![l] = Call("fetch", p, NoKey, getConsumerFields(p))]
          /\ UNCHANGED <<loadingState, events, effects>>
  /\ UNCHANGED <<provVars, contextPlace, cacheVars, nloads, picker, env>>

\* The load ends without setting the loading state.
FinishStillLoading(l, p) ==
  /\ loads' = [loads EXCEPT ![l] = DoneLoad]
  /\ UNCHANGED <<loadingState, events, effects>>

\* Lines 343-351: the load ends LOADED.
Finish(l, p) ==
  /\ loads' = [loads EXCEPT ![l] = DoneLoad]
  /\ loadingState' = [loadingState EXCEPT ![p] = "LOADED"]
  /\ effects' = Recorded(RequestUpdates(p) \o appendAttributionIfAbsent(p))
  /\ UNCHANGED events

\* Lines 329-342: fetchFields has settled with out: "ok", "notAvailable"
\* or "error".
ResumeFetch(l, out) ==
  LET p == loads[l].prov IN
  /\ loads[l].pc = "fetch"
  /\ CASE out = "ok" -> Finish(l, p)
       [] out = "error" -> HandleError(l, p, "fetchFields")
       [] out = "notAvailable" ->
            IF contextPlace[p] = NoPlace
            THEN HandleError(l, p, "TypeError")
            ELSE /\ loads' = [loads EXCEPT ![l] =
                                Call("shim", p, KeyOf(contextPlace[p]), loads[l].fields)]
                 /\ UNCHANGED <<loadingState, events, effects>>
  /\ UNCHANGED <<provVars, contextPlace, cacheVars, nloads, picker, env>>

\* The shimmed place becomes the context place but is not handed to the
\* cache.
ResumeShimUncached(l, ok) ==
  LET p == loads[l].prov
      ctx == MkPlace(loads[l].key[1], loads[l].key[2], "shim")
  IN
  /\ loads[l].pc = "shim"
  /\ IF ok
     THEN /\ contextPlace' = [contextPlace EXCEPT ![p] = ctx]
          /\ loads' = [loads EXCEPT ![l] = Call("refetch", p, NoKey, loads[l].fields)]
          /\ UNCHANGED <<loadingState, events, effects, cacheVars>>
     ELSE /\ HandleError(l, p, "makePlace")
          /\ UNCHANGED <<contextPlace, cacheVars>>
  /\ UNCHANGED <<provVars, nloads, picker, env>>

\* Lines 335-338: the shimmed place is made, cached, and fetchFields is
\* called on it.
ResumeShim(l, ok) ==
  LET p == loads[l].prov
      ctx == MkPlace(loads[l].key[1], loads[l].key[2], "shim")
  IN
  /\ loads[l].pc = "shim"
  /\ IF ok
     THEN /\ contextPlace' = [contextPlace EXCEPT ![p] = ctx]
          /\ CacheUpdatePlace(p, ctx)
          /\ loads' = [loads EXCEPT ![l] = Call("refetch", p, NoKey, loads[l].fields)]
          /\ UNCHANGED <<loadingState, events, effects>>
     ELSE /\ HandleError(l, p, "makePlace")
          /\ UNCHANGED <<contextPlace, cacheVars>>
  /\ UNCHANGED <<provVars, nloads, picker, env>>

\* Line 338: the second fetchFields has settled.
ResumeRefetch(l, ok) ==
  LET p == loads[l].prov IN
  /\ loads[l].pc = "refetch"
  /\ IF ok THEN Finish(l, p) ELSE HandleError(l, p, "fetchFields")
  /\ UNCHANGED <<provVars, contextPlace, cacheVars, nloads, picker, env>>

Next ==
  \/ \E p \in Providers, pl \in GenProps : AssignPlace(p, pl)
  \/ \E p \in Providers, g \in Langs : AssignLanguage(p, g)
  \/ \E f \in fetches : FetchSucceeds(f)
  \/ \E f \in fetches : FetchFails(f)
  \/ \E l \in DOMAIN loads : ResumeLookup(l)
  \/ \E l \in DOMAIN loads, ok \in BOOLEAN : ResumeMake(l, ok)
  \/ \E l \in DOMAIN loads : ResumeDefer(l)
  \/ \E l \in DOMAIN loads, out \in {"ok", "notAvailable", "error"} : ResumeFetch(l, out)
  \/ \E l \in DOMAIN loads, ok \in BOOLEAN : ResumeShim(l, ok)
  \/ \E l \in DOMAIN loads, ok \in BOOLEAN : ResumeRefetch(l, ok)

Spec == Init /\ [][Next]_vars

\* One caller of the shared cache that looks places up by id, or hands the
\* provider a Place, in one language, and starts a load only when the one
\* before has finished; the access order of the cache is recorded.
SeqProps == StringProps \cup {pl \in ObjectProps : pl.requestedLanguage = "none"}

InitSeq == InitWith([limit |-> MaxSeqLoads, active |-> 1, track |-> TRUE, log |-> FALSE, fx |-> FALSE], Providers, Providers)

NextSeq ==
  \/ \E pl \in SeqProps : AssignPlace("p1", pl)
  \/ \E f \in fetches : FetchSucceeds(f)
  \/ \E f \in fetches : FetchFails(f)
  \/ \E l \in DOMAIN loads : ResumeLookup(l)
  \/ \E l \in DOMAIN loads, out \in {"ok", "notAvailable", "error"} : ResumeFetch(l, out)
  \/ \E l \in DOMAIN loads, ok \in BOOLEAN : ResumeShim(l, ok)
  \/ \E l \in DOMAIN loads, ok \in BOOLEAN : ResumeRefetch(l, ok)

SpecSeq == InitSeq /\ [][NextSeq]_vars

\* Two providers that look places up by id, with resolve calls that
\* settle: a resolve call that was issued is answered or fails in the end.
LiveProps == {pl \in StringProps : pl.id \in {"A", "B"}}

InitLive == InitWith([limit |-> MaxLiveLoads, active |-> MaxLiveLoads, track |-> FALSE, log |-> FALSE, fx |-> FALSE],
                     Providers, Providers)

NextLive ==
  \/ \E p \in Providers, pl \in LiveProps : AssignPlace(p, pl)
  \/ \E f \in fetches : FetchSucceeds(f)
  \/ \E f \in fetches : FetchFails(f)
  \/ \E l \in DOMAIN loads : ResumeLookup(l)
  \/ \E l \in DOMAIN loads, out \in {"ok", "notAvailable", "error"} : ResumeFetch(l, out)
  \/ \E l \in DOMAIN loads, ok \in BOOLEAN : ResumeShim(l, ok)
  \/ \E l \in DOMAIN loads, ok \in BOOLEAN : ResumeRefetch(l, ok)

\* The resolve call issued by load i settles.
Settles(i) == \E f \in fetches : f.id = i /\ (FetchSucceeds(f) \/ FetchFails(f))

SpecLive == InitLive /\ [][NextLive]_vars /\ \A i \in 1..MaxLiveLoads : WF_vars(Settles(i))

\* One provider whose place and language are assigned when no load is
\* running and whose attributes and consumers change at any time; the
\* events it dispatches are recorded.
ProvProps == {pl \in PlaceProps : pl.id \in {"", "A"} /\ pl.requestedLanguage = "none"}

FieldLists == {<<>>, FieldsAttribute}

InitProv == InitWith([limit |-> MaxProvLoads, active |-> 1, track |-> FALSE,
                      log |-> TRUE, fx |-> FALSE], {}, {})

NextProv ==
  \/ \E pl \in ProvProps : AssignPlace("p1", pl)
  \/ \E g \in Langs : AssignLanguage("p1", g)
  \/ \E pl \in ProvProps, g \in Langs : AssignPlaceAndLanguage("p1", pl, g)
  \/ \E b \in BOOLEAN : AssignAutoFetchDisabled("p1", b)
  \/ \E fs \in FieldLists : AssignFields("p1", fs)
  \/ \E c \in Consumers : RegisterPlaceConsumer("p1", c)
  \/ \E c \in Consumers : UnregisterPlaceConsumer("p1", c)
  \/ \E f \in fetches : FetchSucceeds(f)
  \/ \E f \in fetches : FetchFails(f)
  \/ \E l \in DOMAIN loads : ResumeLookup(l)
  \/ \E l \in DOMAIN loads, ok \in BOOLEAN : ResumeMake(l, ok)
  \/ \E l \in DOMAIN loads : ResumeDefer(l)
  \/ \E l \in DOMAIN loads, out \in {"ok", "notAvailable", "error"} : ResumeFetch(l, out)
  \/ \E l \in DOMAIN loads, ok \in BOOLEAN : ResumeShim(l, ok)
  \/ \E l \in DOMAIN loads, ok \in BOOLEAN : ResumeRefetch(l, ok)

SpecProv == InitProv /\ [][NextProv]_vars

\* One provider whose every external call settles: a resolve call that was
\* issued is answered or fails, and a load suspended at an await resumes.
InitLoad == InitWith([limit |-> MaxLoadRuns, active |-> 1, track |-> FALSE,
                      log |-> TRUE, fx |-> FALSE], {}, {})

\* Load l resumes from the await it is suspended at.
Resumes(l) ==
  \/ ResumeLookup(l)
  \/ \E ok \in BOOLEAN : ResumeMake(l, ok)
  \/ ResumeDefer(l)
  \/ \E out \in {"ok", "notAvailable", "error"} : ResumeFetch(l, out)
  \/ \E ok \in BOOLEAN : ResumeShim(l, ok)
  \/ \E ok \in BOOLEAN : ResumeRefetch(l, ok)

NextLoad ==
  \/ \E pl \in ProvProps : AssignPlace("p1", pl)
  \/ \E g \in Langs : AssignLanguage("p1", g)
  \/ \E b \in BOOLEAN : AssignAutoFetchDisabled("p1", b)
  \/ \E fs \in FieldLists : AssignFields("p1", fs)
  \/ \E f \in fetches : FetchSucceeds(f)
  \/ \E f \in fetches : FetchFails(f)
  \/ \E l \in DOMAIN loads : Resumes(l)

SpecLoad ==
  /\ InitLoad
  /\ [][NextLoad]_vars
  /\ \A l \in 1..MaxLoadRuns : WF_vars(Settles(l)) /\ WF_vars(Resumes(l))

\* One provider with consumers that come and go between and during its
\* loads; what the loads do to the consumers and children is recorded.
InitEffects == InitWith([limit |-> MaxEffectLoads, active |-> 1, track |-> FALSE,
                         log |-> TRUE, fx |-> TRUE], {}, {})

NextEffects ==
  \/ \E pl \in ProvProps : AssignPlace("p1", pl)
  \/ \E b \in BOOLEAN : AssignAutoFetchDisabled("p1", b)
  \/ \E c \in Consumers : RegisterPlaceConsumer("p1", c)
  \/ \E c \in Consumers : UnregisterPlaceConsumer("p1", c)
  \/ \E f \in fetches : FetchSucceeds(f)
  \/ \E f \in fetches : FetchFails(f)
  \/ \E l \in DOMAIN loads : Resumes(l)

SpecEffects == InitEffects /\ [][NextEffects]_vars

\* The user at the place picker; no provider is on the page.
InitPicker == InitWith([limit |-> 0, active |-> 0, track |-> FALSE, log |-> FALSE, fx |-> FALSE], {}, {})

NextPicker ==
  \/ \E q \in QueryTexts : EnterQueryText(q)
  \/ PlaceSelectionHandler
  \/ ClearButtonClick
  \/ SearchButtonClick
  \/ \E places \in FindPlaceResponses : FindPlaceResolves(places)
  \/ FetchFieldsResolves
  \/ \E error \in SearchErrors : FindPlaceRejects(error)

SpecPicker == InitPicker /\ [][NextPicker]_vars


\* ================================================================ claims
Waiting(l) == loads[l].pc = "lookup" /\ loads[l].res.st = "none"

\* C1: at most one resolve call is outstanding per cache key at any time,
\* and every caller still waiting for key K is attached to the one
\* outstanding fetch for K (overlapping getPlace(K) calls issue no second
\* resolve call).
C1_OneFetchPerKey ==
  /\ \A k \in Keys : Cardinality({f \in fetches : f.key = k}) <= 1
  /\ \A l \in DOMAIN loads :
       Waiting(l) => \E f \in fetches : f.key = loads[l].key /\ f.id = loads[l].att

\* Two callers wait for the same key and one resolve call is outstanding.
C1_Witness ==
  \E l1, l2 \in DOMAIN loads :
    /\ l1 # l2 /\ Waiting(l1) /\ Waiting(l2)
    /\ loads[l1].key = loads[l2].key
    /\ loads[l1].prov # loads[l2].prov
    /\ Cardinality(fetches) = 1

\* C2: a cache constructed with capacity N never holds more than N
\* resolved entries, whatever getPlace (succeeding or failing) and
\* updatePlace operations were done.
C2_AtMostN == \A c \in Caches : Len(entries[c]) <= Capacity

\* More than N distinct keys were inserted and the cache is full.
C2_Witness == Len(recency) > Capacity /\ Len(entries["static"]) = Capacity

\* C3: the callers attached to one fetch all get the same outcome when it
\* completes (the same place, or the failure), and none of them is left
\* waiting once the fetch is over.
C3_SameOutcome ==
  /\ \A l1, l2 \in DOMAIN loads :
       (/\ loads[l1].pc = "lookup" /\ loads[l2].pc = "lookup"
        /\ loads[l1].att # 0 /\ loads[l1].att = loads[l2].att)
       => loads[l1].res = loads[l2].res
  /\ \A l \in DOMAIN loads : Waiting(l) => \E f \in fetches : f.id = loads[l].att

\* Two callers of one fetch both hold its failure.
C3_Witness ==
  \E l1, l2 \in DOMAIN loads :
    /\ l1 # l2
    /\ loads[l1].pc = "lookup" /\ loads[l2].pc = "lookup"
    /\ loads[l1].att # 0 /\ loads[l1].att = loads[l2].att
    /\ loads[l1].res = ErrRes /\ loads[l2].res = ErrRes


\* The steps the claims are about, told by what they change.
\* A fetch has just failed for the waiting load l.
Failed(l) == Waiting(l) /\ loads'[l].res = ErrRes
\* A fetch has just succeeded for the waiting load l.
Succeeded(l) == Waiting(l) /\ loads'[l].res.st = "ok"
\* A load has just been started by provider p.
Started(p) == nloads' = nloads + 1 /\ loads'[nloads'].prov = p
\* Provider p has just called getPlace for this.place in this.language.
Looked(p) == Started(p) /\ loads'[nloads'].pc = "lookup"
Requested(p) == <<place'[p].id, language'[p]>>
Marked(c, k) == \E m \in pending : m.cache = c /\ m.key = k
InFlight(k) == \E f \in fetches : f.key = k

UserPlace(p) == MkPlace(place'[p].id, place'[p].requestedLanguage, "user")
\* Provider p has just been assigned a Place object.
AssignedPlace(p) == Started(p) /\ place'[p] # place[p] /\ place'[p].kind = "Place"
\* The Place that load l awaited from makePlaceFromPlaceResult is there.
Made(l) ==
  /\ loads[l].pc = "make"
  /\ \/ loads'[l].pc \in {"fetch", "defer"}
     \/ loads'[l].pc = "done" /\ loadingState'[loads[l].prov] = "LOADED"
Updated(k) == k \in KeysOf(entries["static"]) /\ Cached(entries["static"], k).src # "resolve"

\* What updatePlace does, and that the provider calls it for a Place and
\* for a PlaceResult: no resolve call is issued and the entry of the
\* place's (id, language) holds the place.
UpdateDone(pl) ==
  /\ fetches' = fetches /\ pending' = pending
  /\ KeyOf(pl) \in KeysOf(entries'["static"])
  /\ Cached(entries'["static"], KeyOf(pl)) = pl

ProviderUpdates ==
  /\ \A p \in Providers : AssignedPlace(p) => UpdateDone(UserPlace(p))
  /\ \A l \in DOMAIN loads :
       Made(l) => UpdateDone(MkPlace(loads[l].key[1], loads[l].key[2], "result"))

C9_HitNoResolve ==
  [][/\ \A p \in Providers :
          (Looked(p) /\ Requested(p) \in KeysOf(entries["static"])) =>
             /\ loads'[nloads'].res = OkRes(Cached(entries["static"], Requested(p)))
             /\ loads'[nloads'].att = 0
             /\ fetches' = fetches /\ pending' = pending
             /\ KeysOf(entries'["static"]) = KeysOf(entries["static"])
     /\ \A l \in DOMAIN loads :
          Succeeded(l) =>
             /\ loads[l].key \in KeysOf(entries'["static"])
             /\ Cached(entries'["static"], loads[l].key) = loads'[l].res.place]_vars

\* A caller got the cached place of a key at once, with no fetch.
C9_Witness ==
  \E l \in DOMAIN loads :
    /\ loads[l].pc = "lookup" /\ loads[l].att = 0 /\ loads[l].res.st = "ok"
    /\ loads[l].res.place.src = "resolve"
    /\ fetches = {}

\* C10: cache keys are the pair (id, language).  A lookup that finds no
\* entry and no fetch for exactly its (id, language) issues a resolve call
\* for that pair, whatever is cached or in flight for the same id in
\* another language; one that finds a fetch for its pair attaches to it;
\* and every entry is filed under the (id, language) of its place.
C10_KeyIsPair ==
  /\ [][\A p \in Providers : Looked(p) =>
          LET k == Requested(p)
              l == nloads'
          IN  /\ (k \notin KeysOf(entries["static"]) /\ ~InFlight(k)) =>
                   fetches' = fetches \cup {[cache |-> "static", key |-> k, id |-> l]}
              /\ (k \notin KeysOf(entries["static"]) /\ InFlight(k)) =>
                   /\ fetches' = fetches
                   /\ \E f \in fetches : f.key = k /\ f.id = loads'[l].att]_vars
  /\ [](\A i \in 1..Len(entries["static"]) :
          KeyOf(entries["static"][i].place) = entries["static"][i].key)

\* The same id is being resolved in one language while it is cached in
\* the other.
C10_Witness ==
  \E f \in fetches : \E k \in KeysOf(entries["static"]) :
    f.key[1] = k[1] /\ f.key[2] # k[2]


\* ------------------------------------------ the order of eviction (SpecSeq)
CachedKeys == KeysOf(entries["static"])
\* The cached key whose last access is the oldest.
OldestCached == recency[CHOOSE i \in 1..Len(recency) :
                          /\ recency[i] \in CachedKeys
                          /\ \A j \in 1..(i - 1) : recency[j] \notin CachedKeys]

\* C5: when the cache holds N entries and a new key is inserted, exactly
\* one entry is evicted, the least recently accessed one; after N+1
\* distinct keys were put into the empty cache, the one accessed first is
\* out and no other.
C5_EvictsLeastRecent ==
  /\ [][(Len(entries["static"]) = Capacity /\ ~(CachedKeys' \subseteq CachedKeys)) =>
          /\ CachedKeys \ CachedKeys' = {OldestCached}
          /\ Cardinality(CachedKeys' \ CachedKeys) = 1
          /\ Len(entries'["static"]) = Capacity]_vars
  /\ [](Len(recency) = Capacity + 1 =>
          /\ Head(recency) \notin CachedKeys
          /\ CachedKeys = {recency[i] : i \in 2..Len(recency)})

\* N+1 distinct keys were inserted, with no hit, and the first is out.
C5_Witness ==
  /\ Len(recency) = Capacity + 1
  /\ lastHit = NoKey
  /\ Len(entries["static"]) = Capacity
  /\ Head(recency) \notin CachedKeys

\* C6: a hit on K makes K the most recently used entry, and K is never
\* evicted while a key accessed less recently than K is still cached: the
\* cached keys are always the most recently accessed ones.
C6_HitRefreshes ==
  /\ \A i, j \in 1..Len(recency) :
       (i < j /\ recency[i] \in CachedKeys) => recency[j] \in CachedKeys
  /\ \A i, j \in 1..Len(entries["static"]) :
       i < j => \E a, b \in 1..Len(recency) :
                  /\ a < b
                  /\ recency[a] = entries["static"][i].key
                  /\ recency[b] = entries["static"][j].key
  /\ (lastHit # NoKey /\ recency[Len(recency)] = lastHit) =>
       entries["static"][Len(entries["static"])].key = lastHit

\* K was hit, keys were inserted after that, and the key accessed just
\* before the hit is out while K is still cached.
C6_Witness ==
  \E i \in 1..Len(recency) :
    /\ i + 1 < Len(recency)
    /\ recency[i + 1] = lastHit
    /\ lastHit \in CachedKeys
    /\ recency[i] \notin CachedKeys

KeyA == <<"A", "none">>
KeyB == <<"B", "none">>
KeyC == <<"C", "none">>

\* C7: with capacity 2, once "A", "B", "C" were looked up in this order,
\* "A" is out and "B" and "C" are cached; a lookup of "A" then issues a
\* resolve call and a lookup of "B" is served from the cache without one.
C7_Scenario ==
  /\ []((Capacity = 2 /\ recency = <<KeyA, KeyB, KeyC>>) =>
          /\ CachedKeys = {KeyB, KeyC}
          /\ ~InFlight(KeyA) => GetPlaceOutcome("static", KeyA) = "miss"
          /\ GetPlaceOutcome("static", KeyB) = "hit")
  /\ [][(Capacity = 2 /\ recency = <<KeyA, KeyB, KeyC>> /\ Looked("p1")) =>
          /\ (Requested("p1") = KeyA /\ ~InFlight(KeyA)) =>
               fetches' = fetches \cup {[cache |-> "static", key |-> KeyA, id |-> nloads']}
          /\ Requested("p1") = KeyB =>
               /\ fetches' = fetches
               /\ loads'[nloads'].res = OkRes(Cached(entries["static"], KeyB))]_vars

\* "A", "B", "C" were resolved in this order and "A" is being resolved
\* again, with "B" and "C" cached.
C7_Witness ==
  /\ Capacity = 2
  /\ recency = <<KeyA, KeyB, KeyC>>
  /\ lastHit = NoKey
  /\ \A i \in 1..Len(entries["static"]) : entries["static"][i].place.src = "resolve"
  /\ InFlight(KeyA)
  /\ nloads = 4


\* ------------------------------------------------- updatePlace and recency
\* The number of entries used more recently than the entry of k.
Depth(es, k) == Len(es) - EntryOf(es, k)

\* The single caller p has just handed its Place to the cache (line 314);
\* with auto-fetch-disabled that load is over in the same step.
Handed(p) ==
  /\ nloads' = nloads + 1
  /\ place'[p].kind = "Place"
  /\ loads'[nloads'].prov \in {p, ""}

\* C11: updatePlace for K makes K the most recently used entry, and an
\* entry goes down by at most one place per step and is evicted only from
\* the last place of a full cache: after updatePlace(K), K survives the
\* next N-1 insertions of other keys and is not the entry the next overflow
\* evicts.
C11_UpdateRefreshes ==
  [][/\ \A p \in Providers :
          Handed(p) =>
             /\ entries'["static"] # <<>>
             /\ entries'["static"][Len(entries'["static"])] =
                  [key |-> KeyOf(UserPlace(p)), place |-> UserPlace(p)]
     /\ \A k \in CachedKeys :
          IF k \in CachedKeys'
          THEN Depth(entries'["static"], k) <= Depth(entries["static"], k) + 1
          ELSE /\ Depth(entries["static"], k) = Capacity - 1
               /\ Len(entries'["static"]) = Capacity
     /\ (Capacity > 1 /\ CachedKeys # {}) =>
          entries["static"][Len(entries["static"])].key \in CachedKeys']_vars

\* A Place handed to the cache in a full cache, N-1 other keys were
\* resolved after that, and the Place is still cached, now as the least
\* recently used entry.
C11_Witness ==
  /\ Len(entries["static"]) = Capacity
  /\ Len(recency) > Capacity
  /\ entries["static"][1].place.src = "user"
  /\ \A i \in 2..Capacity : entries["static"][i].place.src = "resolve"


\* ------------------------------------------------------- no cancellation
\* C12: a getPlace call that waits on a fetch stops waiting only when that
\* fetch settles, and then holds its outcome; given that every resolve
\* call settles, every waiting getPlace call completes.
C12_NoWaiterForever ==
  /\ [][\A l \in DOMAIN loads : (Waiting(l) /\ ~Waiting(l)') =>
          /\ \E f \in fetches \ fetches' : f.id = loads[l].att /\ f.key = loads[l].key
          /\ loads'[l] = [loads[l] EXCEPT !.res = loads'[l].res]
          /\ loads'[l].res \in {ErrRes, OkRes(MkPlace(loads[l].key[1], loads[l].key[2], "resolve"))}]_vars
  /\ \A l \in 1..MaxLiveLoads : Waiting(l) ~> (loads[l].pc = "lookup" /\ loads[l].res.st # "none")

\* A caller that attached to another caller's fetch holds its result.
C12_Witness ==
  \E l \in DOMAIN loads :
    /\ loads[l].pc = "lookup" /\ loads[l].att \notin {0, l}
    /\ loads[l].res.st = "ok"


\* ------------------------------------------------- one cache for all
\* C13: all providers use one cache.  When a provider is assigned a place
\* ID in a language while another provider's getPlace for the same ID and
\* language is waiting, it attaches to that fetch; when the key is cached,
\* it gets the cached place; in both cases no resolve call is issued.
C13_SharedLookup ==
  /\ [][\A p \in Providers : Looked(p) =>
          LET k == Requested(p)
              n == nloads'
          IN  /\ \A l \in DOMAIN loads :
                    (loads[l].prov # p /\ Waiting(l) /\ loads[l].key = k) =>
                       /\ fetches' = fetches
                       /\ k \notin CachedKeys => loads'[n].att = loads[l].att
              /\ k \in CachedKeys =>
                    /\ fetches' = fetches
                    /\ loads'[n].res = OkRes(Cached(entries["static"], k))]_vars
  /\ [](/\ \A p \in Providers : entries[p] = <<>>
        /\ \A m \in pending \cup fetches : m.cache = "static")

\* The second provider attached to the first one's fetch and both hold
\* the place it resolved.
C13_Witness ==
  \E l1, l2 \in DOMAIN loads :
    /\ loads[l1].prov # "" /\ loads[l2].prov # "" /\ loads[l1].prov # loads[l2].prov
    /\ loads[l1].pc = "lookup" /\ loads[l2].pc = "lookup"
    /\ loads[l1].key = loads[l2].key
    /\ loads[l1].att = l1 /\ loads[l2].att = l1 /\ l1 # l2
    /\ loads[l1].res.st = "ok" /\ loads[l2].res = loads[l1].res
    /\ fetches = {}


\* ----------------------------------------------------- a load that throws
\* The getPlace promise load l awaits was rejected and the load resumes.
Rejected(l) == loads[l].pc = "lookup" /\ loads[l].res = ErrRes /\ loads'[l] # loads[l]

\* Load l ends in ERROR with exactly one gmpx-requesterror event, carrying
\* the error e.
Errored(l, e) ==
  /\ loads'[l].pc = "done"
  /\ loadingState'[loads[l].prov] = "ERROR"
  /\ events' = Append(events, RequestErrorEvent(loads[l].prov, e))

\* C14: when a step of a load throws (the lookup is rejected, the Place
\* cannot be made, fetchFields or its retry fails with an error other than
\* 'not available'), loadingState becomes ERROR, exactly one
\* gmpx-requesterror event carrying that error is dispatched, and the load
\* is over: it takes no further step, so it never sets LOADED.  No event
\* is dispatched in any other step.
C14_ErrorOnce ==
  [][/\ \A l \in DOMAIN loads :
          /\ Rejected(l) => Errored(l, "resolve")
          /\ ResumeFetch(l, "error") => Errored(l, "fetchFields")
          /\ ResumeRefetch(l, FALSE) => Errored(l, "fetchFields")
          /\ ResumeMake(l, FALSE) => Errored(l, "makePlace")
          /\ ResumeShim(l, FALSE) => Errored(l, "makePlace")
          /\ loads[l].pc = "done" => loads'[l] = loads[l]
     /\ events' # events =>
          \E l \in DOMAIN loads :
            /\ loads[l].pc \in {"lookup", "make", "defer", "fetch", "shim", "refetch"}
            /\ loads'[l].pc = "done"
            /\ loadingState'[loads[l].prov] = "ERROR"
            /\ Len(events') = Len(events) + 1
     /\ \A p \in Providers :
          (loadingState'[p] = "LOADED" /\ loadingState[p] # "LOADED") => events' = events]_vars

\* The first load failed in fetchFields: the provider shows ERROR and one
\* event was dispatched.
C14_Witness ==
  /\ nloads = 1
  /\ loads[1].pc = "done"
  /\ loadingState["p1"] = "ERROR"
  /\ events = <<RequestErrorEvent("p1", "fetchFields")>>


\* ------------------------------------------------------ auto-fetch-disabled
\* Load l of provider p has just gone past the test on line 319, with or
\* without fetching.
Passes319(l, p) ==
  \/ /\ loads[l].prov = p
     /\ loads[l].pc \in {"lookup", "make"}
     /\ \/ loads'[l].pc \in {"fetch", "defer"}
        \/ loads'[l].pc = "done" /\ loadingState'[p] = "LOADED"
  \/ Handed(p) /\ l = nloads'

\* The values the test on line 319 reads.
MayFetch(p) == place'[p].kind = "string" \/ ~autoFetchDisabled[p]

\* C15: a load goes on to call fetchFields (at once, or after the deferred
\* step) if and only if, at line 319, place is a Place ID string or
\* autoFetchDisabled is false; otherwise (an object place with
\* autoFetchDisabled) it ends LOADED with no fetchFields call.  fetchFields
\* is called nowhere else but in the retry on the shim.
C15_AutoFetchDisabled ==
  [][\A l \in DOMAIN loads :
       /\ \A p \in Providers : Passes319(l, p) =>
            /\ loads'[l].pc \in {"fetch", "defer"} <=> MayFetch(p)
            /\ ~MayFetch(p) =>
                 /\ loads'[l] = DoneLoad
                 /\ loadingState'[p] = "LOADED"
                 /\ events' = events
       /\ (loads[l].pc = "defer" /\ loads'[l] # loads[l]) => loads'[l].pc = "fetch"
       /\ (loads'[l].pc = "fetch" /\ loads[l].pc # "fetch") =>
            \/ loads[l].pc = "defer"
            \/ \E p \in Providers : Passes319(l, p) /\ MayFetch(p)
       /\ (loads'[l].pc = "refetch" /\ loads[l].pc # "refetch") => loads[l].pc = "shim"]_vars

\* The load of a Place ID is calling fetchFields with auto-fetch-disabled
\* set, after an earlier load that ended without an error.
C15_Witness ==
  /\ nloads = 2
  /\ loads[1] = DoneLoad
  /\ loads[2].pc = "fetch"
  /\ place["p1"].kind = "string"
  /\ autoFetchDisabled["p1"]
  /\ fields["p1"] # <<>>
  /\ events = <<>>


\* ------------------------------------------------- what starts a load
\* Exactly one load has just been started, and no other load has moved.
OneLoadStarted ==
  /\ nloads' = nloads + 1
  /\ loads[nloads'] = IdleLoad /\ loads'[nloads'] # IdleLoad
  /\ \A l \in DOMAIN loads : l # nloads' => loads'[l] = loads[l]

\* A lookup or a fetchFields call has just been made.
RequestMade ==
  \/ ~(fetches' \subseteq fetches)
  \/ \E l \in DOMAIN loads :
       loads'[l].pc \in {"lookup", "fetch", "refetch"} /\ loads'[l].pc # loads[l].pc

Range(xs) == {xs[i] : i \in 1..Len(xs)}

NoDuplicates(xs) == \A i, j \in 1..Len(xs) : xs[i] = xs[j] => i = j

\* The fields some registered consumer of p requires.
RequiredByConsumers(p) ==
  UNION {Range(getRequiredFields(c)) : c \in Range(placeConsumers[p])}

\* C17: fetchFields is given the manually specified fields when that list
\* is not empty (and then without a deferred step); otherwise the load
\* defers, and fetchFields is given, without duplicates, exactly the
\* fields required by the consumers registered when the deferred step
\* runs.
C17_RequestedFields ==
  [][\A l \in DOMAIN loads : \A p \in Providers :
       /\ (Passes319(l, p) /\ MayFetch(p)) =>
            IF fields[p] # <<>>
            THEN loads'[l].pc = "fetch" /\ loads'[l].fields = fields[p]
            ELSE loads'[l].pc = "defer"
       /\ (loads[l].prov = p /\ loads[l].pc = "defer" /\ loads'[l].pc = "fetch") =>
            /\ NoDuplicates(loads'[l].fields)
            /\ Range(loads'[l].fields) = RequiredByConsumers(p)
            /\ placeConsumers' = placeConsumers]_vars

\* Two consumers that both require `location` are registered, no fields
\* are specified, and fetchFields was called with the three fields they
\* require.
C17_Witness ==
  \E l \in DOMAIN loads :
    /\ loads[l].pc = "fetch"
    /\ fields["p1"] = <<>>
    /\ Len(placeConsumers["p1"]) = 2
    /\ Len(loads[l].fields) = 3
    /\ Range(loads[l].fields) = {"displayName", "location", "rating"}


\* ---------------------------------------------------------------- C18
\* The user has only typed so far: no selection, search or clear.
OnlyTyped ==
  \A i \in 1..Len(picker.steps) : picker.steps[i] = "input"

\* C18: in the place picker, typing alone never changes the value and never
\* dispatches an event: after any sequence of text input events, with no
\* selection, search or clear, the value is still undefined, no event was
\* dispatched, the search button is disabled exactly when the input text is
\* empty and the clear button is hidden exactly when the input text is empty.
C18_TypingAlone ==
  OnlyTyped =>
    /\ picker.value = Undefined
    /\ picker.dispatched = <<>>
    /\ picker.searchDisabled <=> (picker.input = "")
    /\ picker.clearHidden <=> (picker.input = "")

\* The user typed some text, deleted it all and typed again: both buttons
\* were enabled, disabled and are enabled again.
C18_Witness ==
  /\ OnlyTyped
  /\ Len(picker.steps) = 3
  /\ picker.input = "some text"
  /\ ~picker.searchDisabled
  /\ ~picker.clearHidden
  /\ picker.value = Undefined
  /\ picker.dispatched = <<>>


\* ---------------------------------------------------------------- C19
\* The step is the user's selection of an autocomplete prediction.
Selects == picker'.steps = Append(picker.steps, "select")

\* C19: when the user selects an autocomplete prediction, the picker's value
\* becomes the place built from the selected result (same id, location and
\* name), exactly one gmpx-placechange event is dispatched, the search button
\* is disabled and the clear button is visible.
C19_SelectionSetsValue ==
  [][Selects =>
       /\ picker'.value.kind = "Place"
       /\ picker'.value.id = PlaceResultFromAutocomplete.place_id
       /\ picker'.value.location = PlaceResultFromAutocomplete.geometry.location
       /\ picker'.value.displayName = PlaceResultFromAutocomplete.name
       /\ picker'.dispatched = Append(picker.dispatched, PlaceChangeEvent)
       /\ picker'.searchDisabled
       /\ ~picker'.clearHidden]_vars

\* The user typed a query and selected a prediction: the value is the
\* selected place and the one event dispatched is the gmpx-placechange.
C19_Witness ==
  /\ picker.steps = <<"input", "select">>
  /\ picker.value.kind = "Place"
  /\ picker.value.id = "FAKE_AUTOCOMPLETE_PLACE_ID"
  /\ picker.dispatched = <<PlaceChangeEvent>>
  /\ picker.searchDisabled
  /\ ~picker.clearHidden


\* ---------------------------------------------------------------- C20
\* The step is a click on the clear button while a place is selected.
ClearsSelection ==
  /\ picker.value.kind = "Place"
  /\ picker'.steps = Append(picker.steps, "clear")

\* C20: clicking the clear button after a place was selected sets the
\* picker's value to undefined, empties the input text, disables the search
\* button, hides the clear button and dispatches exactly one gmpx-placechange
\* event.
C20_ClearResets ==
  [][ClearsSelection =>
       /\ picker'.value = Undefined
       /\ picker'.input = ""
       /\ picker'.searchDisabled
       /\ picker'.clearHidden
       /\ picker'.dispatched = Append(picker.dispatched, PlaceChangeEvent)]_vars

\* The user typed, selected a prediction and clicked the clear button: the
\* picker is empty again and dispatched one event for each of the two changes.
C20_Witness ==
  /\ picker.steps = <<"input", "select", "clear">>
  /\ picker.value = Undefined
  /\ picker.input = ""
  /\ picker.searchDisabled
  /\ picker.clearHidden
  /\ picker.dispatched = <<PlaceChangeEvent, PlaceChangeEvent>>


\* ---------------------------------------------------------------- C21
\* The step is the rejection of the find-place query of a text search.
SearchRejected == picker'.steps = Append(picker.steps, "rejected")

\* C21: when a text search is rejected by the Places API, the picker's value
\* is left unchanged (undefined if nothing was selected before), exactly one
\* event is dispatched and it is a gmpx-requesterror carrying the error (no
\* gmpx-placechange), the search button is disabled and the clear button
\* stays visible.
C21_SearchRejected ==
  [][/\ SearchRejected =>
          /\ picker'.value = picker.value
          /\ (picker.value = Undefined => picker'.value = Undefined)
          /\ Len(picker'.dispatched) = Len(picker.dispatched) + 1
          /\ SubSeq(picker'.dispatched, 1, Len(picker.dispatched)) = picker.dispatched
          /\ picker'.dispatched[Len(picker'.dispatched)].type = "gmpx-requesterror"
          /\ picker'.searchDisabled
          /\ ~picker.clearHidden
          /\ ~picker'.clearHidden
     /\ \A error \in SearchErrors :
          FindPlaceRejects(error) =>
            picker'.dispatched = Append(picker.dispatched, PickerRequestErrorEvent(error))]_vars

\* The user typed a query and clicked search, and the query was rejected:
\* the value is still undefined and the one event dispatched is the error.
C21_Witness ==
  /\ picker.steps = <<"input", "search", "rejected">>
  /\ picker.value = Undefined
  /\ picker.dispatched = <<PickerRequestErrorEvent("some network error")>>
  /\ picker.searchDisabled
  /\ ~picker.clearHidden


\* ---------------------------------------------------------------- C22
\* The number of steps of one kind the picker has taken.
CountSteps(kind) ==
  Cardinality({i \in 1..Len(picker.steps) : picker.steps[i] = kind})

\* The step appends a step of this kind.
Steps(kind) == picker'.steps = Append(picker.steps, kind)

\* C22: clicking search with non-empty text issues exactly one find-place
\* query; if it returns a place the value becomes that place (after one
\* fetchFields on it), and if it returns no places the value becomes null
\* (not undefined) and exactly one gmpx-placechange event is dispatched; in
\* both cases the search button ends disabled and the clear button visible.
C22_SearchSetsValue ==
  /\ [](/\ Len(picker.findPlaceFromQuery) = CountSteps("search")
        /\ Len(picker.fetchFields) = CountSteps("found"))
  /\ [][/\ Steps("search") =>
              /\ picker.input # ""
              /\ picker'.findPlaceFromQuery =
                    Append(picker.findPlaceFromQuery, FindPlaceRequest(picker.input))
              /\ picker'.fetchFields = picker.fetchFields
        /\ Steps("none") =>
              /\ picker'.value = Null
              /\ picker'.value # Undefined
              /\ picker'.dispatched = Append(picker.dispatched, PlaceChangeEvent)
              /\ picker'.searchDisabled
              /\ ~picker'.clearHidden
              /\ picker'.fetchFields = picker.fetchFields
        /\ Steps("found") =>
              /\ picker'.value = picker.value
              /\ picker'.fetchFields =
                    Append(picker.fetchFields,
                           [place |-> PlaceFromQuery.id, fields |-> "PLACE_DATA_FIELDS"])
        /\ Steps("fetched") =>
              /\ picker'.value = PlaceFromQuery
              /\ picker'.fetchFields = picker.fetchFields
              /\ picker'.searchDisabled
              /\ ~picker'.clearHidden
        /\ picker'.findPlaceFromQuery # picker.findPlaceFromQuery => Steps("search")]_vars

\* Two searches: the first found no place and made the value null, the
\* second found a place, fetched its fields once and made it the value.
C22_Witness ==
  /\ picker.steps = <<"input", "search", "none", "input", "search", "found", "fetched">>
  /\ picker.value = PlaceFromQuery
  /\ Len(picker.findPlaceFromQuery) = 2
  /\ Len(picker.fetchFields) = 1
  /\ picker.dispatched = <<PlaceChangeEvent, PlaceChangeEvent>>
  /\ picker.searchDisabled
  /\ ~picker.clearHidden


\* ---------------------------------------------------------------- C23
\* No load of provider p is suspended: every load started for it finished.
LoadsFinished(p) == \A l \in Active : loads[l].prov # p

\* The context place and loading state that the values place[p] and
\* language[p] lead to when the load started for them is the last to write:
\* nothing and EMPTY for an undefined place, and otherwise, unless the load
\* ended in ERROR, a place of the id and language assigned, and LOADED.
ReflectsAssignment(p) ==
  CASE place[p].kind = "undefined" ->
         contextPlace[p] = NoPlace /\ loadingState[p] = "EMPTY"
    [] place[p].kind = "Place" ->
         /\ loadingState[p] \in {"LOADED", "ERROR"}
         /\ contextPlace[p].id = place[p].id
         /\ contextPlace[p].requestedLanguage = place[p].requestedLanguage
    [] OTHER ->
         /\ loadingState[p] \in {"LOADED", "ERROR"}
         /\ loadingState[p] = "LOADED" =>
              /\ contextPlace[p].id = place[p].id
              /\ contextPlace[p].requestedLanguage = language[p]

\* C23 (as stated; violated): if place is assigned A and then B (or the
\* language is changed) before A's load has finished, then once both loads
\* have finished the provider's context place and loadingState reflect B,
\* the most recent assignment, whatever order the lookups and fetchFields
\* calls complete in.
C23_LatestAssignmentWins ==
  \A p \in Providers : LoadsFinished(p) => ReflectsAssignment(p)

\* Both loads of p1 have finished, place is the Place ID "B", which was
\* resolved and cached, and the context place is the place of "A", loaded:
\* the load of "A" wrote last.
C23_Witness ==
  /\ nloads = 2
  /\ LoadsFinished("p1")
  /\ place["p1"].kind = "string"
  /\ place["p1"].id = "B"
  /\ contextPlace["p1"].id = "A"
  /\ loadingState["p1"] = "LOADED"
  /\ <<"B", "none">> \in KeysOf(entries["static"])


\* ---------------------------------------------------------------- C24
\* The fetch f for a key settles in this step while the cache holds, under
\* that key, a place written by updatePlace.
SettlesOverUpdate(f) ==
  /\ f \in fetches
  /\ f \notin fetches'
  /\ f.cache = "static"
  /\ Updated(f.key)

LoadBegins(p) == AssignPlace(p, place'[p]) \/ AssignLanguage(p, language'[p])

\* The suspended load l ends in this step.
LoadEnds(l) == l \in Active /\ loads'[l].pc = "done"

\* C25: every provider load sets loadingState to LOADING before its first
\* suspension point and, assuming every external call settles, eventually
\* ends by setting exactly one of EMPTY (place undefined or empty string),
\* LOADED (all steps succeeded) or ERROR (a step threw); a single load never
\* leaves the provider in LOADING forever.
C25_LoadSettles ==
  /\ [](\A l \in Active : loadingState[loads[l].prov] = "LOADING")
  /\ [][/\ \A p \in Providers : LoadBegins(p) =>
             LET l == nloads' IN
             /\ nloads' = nloads + 1
             /\ loads'[l].pc # "done" =>
                  loads'[l].prov = p /\ loadingState'[p] = "LOADING"
             /\ loads'[l].pc = "done" => loadingState'[p] \in {"EMPTY", "LOADED"}
             /\ loadingState'[p] = "EMPTY" <=> place'[p].kind = "undefined"
             /\ events' = events
        /\ \A l \in DOMAIN loads : LoadEnds(l) =>
             LET p == loads[l].prov IN
             /\ loadingState'[p] \in {"LOADED", "ERROR"}
             /\ loadingState'[p] = "ERROR" <=> events' # events
             /\ loadingState'[p] = "LOADED" =>
                  \/ loads[l].pc \in {"fetch", "refetch"}
                  \/ place[p].kind # "string" /\ autoFetchDisabled[p]]_vars
  /\ \A l \in 1..MaxLoadRuns : (l \in Active) ~> (loads[l].pc = "done")
  /\ \A p \in Providers : (loadingState[p] = "LOADING") ~> (loadingState[p] # "LOADING")

\* Two loads of p1 have ended: the first in ERROR, as the one event
\* dispatched tells, the second in LOADED.
C25_Witness ==
  /\ nloads = 2
  /\ Active = {}
  /\ Len(events) = 1
  /\ loadingState["p1"] = "LOADED"
  /\ place["p1"].kind = "string"


\* ---------------------------------------------------------------- C26
\* Provider p has just begun a load with place undefined or the empty string.
EmptyLoadBegins(p) == LoadBegins(p) /\ place'[p].kind = "undefined"

\* C26: when place is undefined or the empty string, a load sets the context
\* place to undefined and loadingState to EMPTY and does nothing else: no
\* cache lookup, no cache update, no fetchFields call, no consumer
\* notification and no attribution is appended.
C26_EmptyLoad ==
  [][\A p \in Providers : EmptyLoadBegins(p) =>
       /\ contextPlace' = [contextPlace EXCEPT ![p] = NoPlace]
       /\ loadingState' = [loadingState EXCEPT ![p] = "EMPTY"]
       /\ nloads' = nloads + 1
       /\ loads' = [loads EXCEPT ![nloads'] = DoneLoad]
       /\ UNCHANGED <<entries, pending, fetches, recency, lastHit>>
       /\ effects' = effects
       /\ events' = events
       /\ UNCHANGED <<autoFetchDisabled, fields, placeConsumers>>]_vars

\* A place was loaded, its consumer notified and the attribution appended;
\* then place was made undefined: the context place is undefined, the state
\* EMPTY, and the cache and the effects are those of the first load.
C26_Witness ==
  /\ nloads = 2
  /\ Active = {}
  /\ place["p1"].kind = "undefined"
  /\ contextPlace["p1"] = NoPlace
  /\ loadingState["p1"] = "EMPTY"
  /\ Len(effects) = 2
  /\ effects[1].type = "requestUpdate"
  /\ effects[2].type = "appendChild"
  /\ entries["static"] # <<>>


\* ---------------------------------------------------------------- C27
\* Load l moves from one await to another, or to its end, in this step.
Moves(l, from, to) == loads[l].pc = from /\ loads'[l].pc = to

\* Load l ends in ERROR in this step, with its error dispatched.
EndsInError(l) ==
  /\ loads'[l].pc = "done"
  /\ loadingState'[loads[l].prov] = "ERROR"
  /\ Len(events') = Len(events) + 1
  /\ events'[Len(events')].type = "gmpx-requesterror"

\* C27: when fetchFields fails with a 'not available' error, the provider
\* replaces the context place by a shimmed place built from the same place
\* id and requested language, writes it to the shared cache with
\* updatePlace, and retries fetchFields exactly once on the shim with the
\* same fields; any other error, and any error from the retry, propagates
\* and ends the load in ERROR.
C27_ShimRetry ==
  [][\A l \in DOMAIN loads :
       LET p == loads[l].prov IN
       /\ ResumeFetch(l, "notAvailable") =>
            /\ Moves(l, "fetch", "shim")
            /\ loads'[l].key = KeyOf(contextPlace[p])
            /\ loads'[l].fields = loads[l].fields
       /\ Moves(l, "shim", "refetch") =>
            /\ contextPlace'[p].src = "shim"
            /\ contextPlace'[p].id = contextPlace[p].id
            /\ contextPlace'[p].requestedLanguage = contextPlace[p].requestedLanguage
            /\ KeyOf(contextPlace'[p]) \in KeysOf(entries'["static"])
            /\ Cached(entries'["static"], KeyOf(contextPlace'[p])) = contextPlace'[p]
            /\ fetches' = fetches
            /\ loads'[l].fields = loads[l].fields
            /\ loadingState'[p] = "LOADING"
       /\ loads[l].pc = "refetch" /\ loads'[l] # loads[l] =>
            /\ loads'[l].pc = "done"
            /\ loadingState'[p] \in {"LOADED", "ERROR"}
            /\ contextPlace' = contextPlace
       /\ loads'[l].pc = "refetch" => loads[l].pc \in {"shim", "refetch"}
       /\ loads'[l].pc = "shim" => loads[l].pc \in {"fetch", "shim"}
       /\ (ResumeFetch(l, "error") \/ ResumeRefetch(l, FALSE)) =>
            /\ EndsInError(l)
            /\ events'[Len(events')].error = "fetchFields"
            /\ UNCHANGED <<contextPlace, cacheVars>>]_vars

\* A load has ended LOADED on a shimmed place that is in the shared cache,
\* and no error was dispatched: the first fetchFields was not available and
\* the one retry succeeded.
C27_Witness ==
  /\ Active = {}
  /\ nloads = 1
  /\ loadingState["p1"] = "LOADED"
  /\ contextPlace["p1"].src = "shim"
  /\ contextPlace["p1"].requestedLanguage = language["p1"]
  /\ Cached(entries["static"], KeyOf(contextPlace["p1"])) = contextPlace["p1"]
  /\ events = <<>>

====
